---- MODULE Spec2Model ----
(***************************************************************************)
(* Fretboard trainer: the pitch resolver (src/src/utils/noteLogic.ts), the *)
(* note player (utils/audio, in src/unnamed/part_000) and the game session *)
(* controller (src/src/App.tsx).                                           *)
(*                                                                         *)
(* The controller is a React component.  Every handler (a button click, a  *)
(* fret click, the interval tick, a setTimeout callback) is one action:    *)
(* the handler's state updates followed by the effects React runs when the *)
(* commit changes their dependencies.  The message, the highlighted        *)
(* position and the audio flag are presentation and are left out.          *)
(***************************************************************************)
EXTENDS Integers, Sequences, FiniteSets, Bags, TLC

VARIABLES
    \* one call of the pitch resolver and of the note player
    stringIndex, fret, noteName, octaveName, playedNote,
    \* useState of App
    mode, targetNote, score, timeLeft, gameActive, foundNotes, activeStrings,
    highScore, unlockedStrings, currentStringScore, noteStats, fretRange,
    currentChord, foundChordNotes,
    \* localStorage
    storedHigh, storedStats, storedUnlocked,
    \* pending setTimeout callbacks
    timeouts,
    \* history: completion bonuses applied since the current chord was selected
    chordBonuses

resolverVars == <<stringIndex, fret, noteName, octaveName, playedNote>>

sessionVars == <<mode, targetNote, score, timeLeft, gameActive, foundNotes,
                 activeStrings, highScore, unlockedStrings, currentStringScore,
                 noteStats, fretRange, currentChord, foundChordNotes>>

storageVars == <<storedHigh, storedStats, storedUnlocked>>

vars == <<resolverVars, sessionVars, storageVars, timeouts, chordBonuses>>

Min(a, b) == IF a < b THEN a ELSE b

Max(a, b) == IF a > b THEN a ELSE b

(***************************************************************************)
(* Pitch resolver                                                          *)
(***************************************************************************)
NOTES == <<"C", "C#", "D", "D#", "E", "F", "F#", "G", "G#", "A", "A#", "B">>

OPEN_STRING_NOTES == <<4, 11, 7, 2, 9, 4>>

\* a JavaScript array read: arr[i] for a 0-based i, undefined outside the array
At(arr, i) == IF i + 1 \in DOMAIN arr THEN arr[i + 1] ELSE "undefined"

\* JavaScript's %: the sign of the result follows the dividend
JsRem(a, b) == IF a >= 0 THEN a % b ELSE 0 - ((0 - a) % b)

\* OPEN_STRING_NOTES[stringIndex] is undefined outside the table; the sum is
\* then NaN and NOTES[NaN] is undefined
InTable(s) == s + 1 \in DOMAIN OPEN_STRING_NOTES

\* a mutant of getNoteName: the index is not reduced into the octave
getNoteNameNoWrap(s, f) ==
    IF ~InTable(s) THEN "undefined"
    ELSE At(NOTES, OPEN_STRING_NOTES[s + 1] + f)

\* a mutant of getNoteName: the table is read one string off
getNoteNameShifted(s, f) ==
    IF ~InTable(s + 1) THEN "undefined"
    ELSE At(NOTES, JsRem(OPEN_STRING_NOTES[s + 2] + f, 12))

\* a mutant of getNoteName: an octave of 11 semitones
getNoteNameShortOctave(s, f) ==
    IF ~InTable(s) THEN "undefined"
    ELSE At(NOTES, JsRem(OPEN_STRING_NOTES[s + 1] + f, 11))

getNoteName(s, f) ==
    IF ~InTable(s) THEN "undefined"
    ELSE LET openNote == OPEN_STRING_NOTES[s + 1]
             noteIndex == JsRem(openNote + f, 12)
         IN  At(NOTES, noteIndex)

(***************************************************************************)
(* Note player.  Tone.Frequency reads scientific pitch notation as a MIDI  *)
(* number (C4 is 60), transpose moves it by semitones and toNote writes it *)
(* back; a note is the pair of its name and its octave.  Whether the synth *)
(* is ready to sound is left out.                                          *)
(***************************************************************************)
\* no call of playNote yet
NoNote == [name |-> "none", octave |-> 0]

\* const basePitches = ['E4', 'B3', 'G3', 'D3', 'A2', 'E2']
basePitches ==
    <<[name |-> "E", octave |-> 4], [name |-> "B", octave |-> 3],
      [name |-> "G", octave |-> 3], [name |-> "D", octave |-> 3],
      [name |-> "A", octave |-> 2], [name |-> "E", octave |-> 2]>>

\* Tone.Frequency(basePitch): the MIDI number of a note
ToneFrequency(note) ==
    (CHOOSE i \in 0 .. 11 : NOTES[i + 1] = note.name) + 12 * (note.octave + 1)

\* note.toNote(): the name and octave of a MIDI number
ToneToNote(midi) == [name |-> NOTES[(midi % 12) + 1], octave |-> (midi \div 12) - 1]

\* a mutant of playNote: the base pitches are read from the low E string up
playNoteLowFirst(s, f) ==
    IF s + 1 \notin DOMAIN basePitches THEN [name |-> "undefined", octave |-> 0]
    ELSE ToneToNote(ToneFrequency(basePitches[Len(basePitches) - s]) + f)

\* the note handed to synth.triggerAttackRelease
playNote(s, f) ==
    IF s + 1 \notin DOMAIN basePitches THEN [name |-> "undefined", octave |-> 0]
    ELSE LET basePitch == basePitches[s + 1]
             note == ToneFrequency(basePitch) + f
         IN  ToneToNote(note)

(***************************************************************************)
(* Game session controller: constants                                      *)
(***************************************************************************)
Modes == {"explore", "survival", "vertical", "stringMaster", "chord", "weakNotes"}

NoteSet == {NOTES[i] : i \in DOMAIN NOTES}

FRET_RANGES ==
    [low  |-> [min |-> 0,  max |-> 4],
     mid  |-> [min |-> 5,  max |-> 9],
     high |-> [min |-> 10, max |-> 12],
     full |-> [min |-> 0,  max |-> 12]]

MASTERY_THRESHOLD == 10

CHORDS ==
    [C |-> [major |-> <<"C", "E", "G">>,   minor |-> <<"C", "D#", "G">>],
     D |-> [major |-> <<"D", "F#", "A">>,  minor |-> <<"D", "F", "A">>],
     E |-> [major |-> <<"E", "G#", "B">>,  minor |-> <<"E", "G", "B">>],
     F |-> [major |-> <<"F", "A", "C">>,   minor |-> <<"F", "G#", "C">>],
     G |-> [major |-> <<"G", "B", "D">>,   minor |-> <<"G", "A#", "D">>],
     A |-> [major |-> <<"A", "C#", "E">>,  minor |-> <<"A", "C", "E">>],
     B |-> [major |-> <<"B", "D#", "F#">>, minor |-> <<"B", "D", "F#">>]]

CHORD_ROOTS == <<"C", "D", "E", "F", "G", "A", "B">>

CHORD_TYPES == <<"major", "minor">>

\* the clickable grid of the fretboard: 6 strings, frets 0..fretCount
StringCount == 6

FretCount == 12

Range(seq) == {seq[i] : i \in DOMAIN seq}

NoChord == [root |-> "null", type |-> "null", notes |-> <<>>]

NoActiveStrings == [defined |-> FALSE, strings |-> {}]

\* new Set(Array.from({length: n}, (_, i) => i))
FirstStrings(n) == [defined |-> TRUE, strings |-> 0 .. (n - 1)]

\* useState<Record<string, NoteStats>>({}): no note has an entry
NoStats == <<>>

\* prev[note] || { correct: 0, wrong: 0 }
StatsOf(allStats, note) ==
    IF note \in DOMAIN allStats THEN allStats[note]
    ELSE [correct |-> 0, wrong |-> 0]

(***************************************************************************)
(* localStorage holds strings.  Number.toString and parseInt are modelled  *)
(* on decimal digit sequences; a missing key reads as the empty sequence   *)
(* (falsy, like null).  JSON.stringify / JSON.parse of the statistics are  *)
(* taken structurally: the stored value is the record itself.              *)
(***************************************************************************)
RECURSIVE toString(_)
toString(n) == IF n < 10 THEN <<n>> ELSE Append(toString(n \div 10), n % 10)

RECURSIVE parseInt(_)
parseInt(str) ==
    IF Len(str) = 0 THEN 0
    ELSE 10 * parseInt(SubSeq(str, 1, Len(str) - 1)) + str[Len(str)]

NoItem == <<>>

NoStoredStats == [present |-> FALSE, value |-> NoStats]

(***************************************************************************)
(* Effects run after a commit                                              *)
(***************************************************************************)
\* useEffect [mode]: the high score of the mode just entered
LoadedHighScore ==
    IF mode' # mode
    THEN IF storedHigh[mode'] # NoItem THEN parseInt(storedHigh[mode']) ELSE 0
    ELSE highScore

\* useEffect [mode] then useEffect [score, highScore, mode], run until nothing
\* changes: the high score of the mode is loaded on a mode change, and a
\* score above it is stored under the key of the current mode
HighScoreEffects ==
    /\ highScore' = Max(LoadedHighScore, score')
    /\ storedHigh' =
          IF score' > LoadedHighScore
          THEN [storedHigh EXCEPT ![mode'] = toString(score')]
          ELSE storedHigh

\* useEffect [mode]: statistics and unlocked count are reloaded on a mode change
ReloadEffects ==
    /\ noteStats' =
          IF mode' # mode /\ storedStats.present THEN storedStats.value
          ELSE noteStats
    /\ unlockedStrings' =
          IF mode' # mode /\ storedUnlocked # NoItem THEN parseInt(storedUnlocked)
          ELSE unlockedStrings
    /\ UNCHANGED <<storedStats, storedUnlocked>>

(***************************************************************************)
(* Target and chord selection                                              *)
(***************************************************************************)
\* pickNewTarget empties the found set when the mode it closed over is vertical
FoundAfterPick(closureMode) ==
    IF closureMode = "vertical" THEN {} ELSE foundNotes

\* pickNewTarget(pool) in a render whose mode is closureMode; note is the draw
PickNewTarget(closureMode, pool, note) ==
    /\ note \in pool
    /\ targetNote' = note
    /\ foundNotes' = FoundAfterPick(closureMode)

\* a mutant of PickNewChord: the notes are read from the other chord type
PickNewChordOtherType(root, type) ==
    /\ root \in Range(CHORD_ROOTS)
    /\ type \in Range(CHORD_TYPES)
    /\ currentChord' =
          [root |-> root, type |-> type,
           notes |-> CHORDS[root][IF type = "major" THEN "minor" ELSE "major"]]
    /\ foundChordNotes' = {}
    /\ foundNotes' = {}
    /\ chordBonuses' = 0

\* pickNewChord; root and type are the two draws
PickNewChord(root, type) ==
    /\ root \in Range(CHORD_ROOTS)
    /\ type \in Range(CHORD_TYPES)
    /\ currentChord' = [root |-> root, type |-> type, notes |-> CHORDS[root][type]]
    /\ foundChordNotes' = {}
    /\ foundNotes' = {}
    /\ chordBonuses' = 0

\* setTimeout(pickNewChord, 1000)
ChordTimeout == [cb |-> "pickNewChord", mode |-> "chord", pool |-> {}]

\* setTimeout(() => pickNewTarget(pool), ...) scheduled in a render of mode m
TargetTimeout(m, pool) == [cb |-> "pickNewTarget", mode |-> m, pool |-> pool]

Schedule(t) == timeouts' = timeouts (+) SetToBag({t})

(***************************************************************************)
(* Mode buttons                                                            *)
(***************************************************************************)
\* the Explore button
StartExplore ==
    /\ mode' = "explore"
    /\ gameActive' = FALSE
    /\ activeStrings' = NoActiveStrings
    /\ UNCHANGED <<targetNote, score, timeLeft, foundNotes, currentStringScore,
                   fretRange, currentChord, foundChordNotes, timeouts,
                   chordBonuses, resolverVars>>
    /\ ReloadEffects
    /\ HighScoreEffects

startSurvival(note) ==
    /\ mode' = "survival"
    /\ activeStrings' = NoActiveStrings
    /\ score' = 0
    /\ timeLeft' = 30
    /\ gameActive' = TRUE
    /\ PickNewTarget(mode, NoteSet, note)
    /\ UNCHANGED <<currentStringScore, fretRange, currentChord, foundChordNotes,
                   timeouts, chordBonuses, resolverVars>>
    /\ ReloadEffects
    /\ HighScoreEffects

startVertical(note) ==
    /\ mode' = "vertical"
    /\ activeStrings' = NoActiveStrings
    /\ score' = 0
    /\ timeLeft' = 60
    /\ gameActive' = TRUE
    /\ note \in NoteSet
    /\ targetNote' = note
    /\ foundNotes' = {}
    /\ UNCHANGED <<currentStringScore, fretRange, currentChord, foundChordNotes,
                   timeouts, chordBonuses, resolverVars>>
    /\ ReloadEffects
    /\ HighScoreEffects

startStringMaster(note) ==
    /\ mode' = "stringMaster"
    /\ activeStrings' = FirstStrings(unlockedStrings)
    /\ score' = 0
    /\ currentStringScore' = 0
    /\ gameActive' = TRUE
    /\ PickNewTarget(mode, NoteSet, note)
    /\ UNCHANGED <<timeLeft, fretRange, currentChord, foundChordNotes,
                   timeouts, chordBonuses, resolverVars>>
    /\ ReloadEffects
    /\ HighScoreEffects

\* a mutant of IsWeak: an error rate of exactly 30% counts as weak
IsWeakAtThirty(stats) ==
    LET total == stats.correct + stats.wrong
    IN  total >= 5 /\ 10 * stats.wrong >= 3 * total

\* the weak-note pool of startWeakNotes and of the weakNotes branch:
\* wrong / total > 0.3 with 5 or more attempts, in exact arithmetic
IsWeak(stats) ==
    LET total == stats.correct + stats.wrong
    IN  total >= 5 /\ 10 * stats.wrong > 3 * total

WeakNotes(allStats) == {n \in DOMAIN allStats : IsWeak(allStats[n])}

\* a mutant of startWeakNotes: a refused start clears the score and the target
startWeakNotesRefusalResets(note) ==
    LET weak == WeakNotes(noteStats)
    IN  /\ IF weak = {}
           THEN /\ mode' = "explore"
                /\ gameActive' = FALSE
                /\ score' = 0
                /\ targetNote' = "null"
                /\ UNCHANGED <<activeStrings, foundNotes>>
           ELSE /\ mode' = "weakNotes"
                /\ activeStrings' = NoActiveStrings
                /\ score' = 0
                /\ gameActive' = TRUE
                /\ PickNewTarget(mode, weak, note)
        /\ UNCHANGED <<timeLeft, currentStringScore, fretRange, currentChord,
                       foundChordNotes, timeouts, chordBonuses, resolverVars>>
        /\ ReloadEffects
        /\ HighScoreEffects

startWeakNotes(note) ==
    LET weak == WeakNotes(noteStats)
    IN  /\ IF weak = {}
           THEN /\ mode' = "explore"
                /\ gameActive' = FALSE
                /\ UNCHANGED <<activeStrings, score, targetNote, foundNotes>>
           ELSE /\ mode' = "weakNotes"
                /\ activeStrings' = NoActiveStrings
                /\ score' = 0
                /\ gameActive' = TRUE
                /\ PickNewTarget(mode, weak, note)
        /\ UNCHANGED <<timeLeft, currentStringScore, fretRange, currentChord,
                       foundChordNotes, timeouts, chordBonuses, resolverVars>>
        /\ ReloadEffects
        /\ HighScoreEffects

startChord(root, type) ==
    /\ mode' = "chord"
    /\ activeStrings' = NoActiveStrings
    /\ score' = 0
    /\ timeLeft' = 90
    /\ gameActive' = TRUE
    /\ PickNewChord(root, type)
    /\ UNCHANGED <<targetNote, currentStringScore, fretRange, timeouts,
                   resolverVars>>
    /\ ReloadEffects
    /\ HighScoreEffects

\* the fret range selector
setFretRange(r) ==
    /\ r \in DOMAIN FRET_RANGES
    /\ fretRange' = r
    /\ UNCHANGED <<mode, targetNote, score, timeLeft, gameActive, foundNotes,
                   activeStrings, highScore, unlockedStrings, currentStringScore,
                   noteStats, currentChord, foundChordNotes, storageVars,
                   timeouts, chordBonuses, resolverVars>>

(***************************************************************************)
(* Fret click                                                              *)
(***************************************************************************)
\* updateNoteStats: one counter of the note, written through to storage
updateNoteStats(note, isCorrect) ==
    LET current == StatsOf(noteStats, note)
        updated == [correct |-> current.correct + (IF isCorrect THEN 1 ELSE 0),
                    wrong   |-> current.wrong + (IF isCorrect THEN 0 ELSE 1)]
        \* { ...prev, [note]: updated }
        newStats == [n \in DOMAIN noteStats \cup {note} |->
                        IF n = note THEN updated ELSE noteStats[n]]
    IN  /\ noteStats' = newStats
        /\ storedStats' = [present |-> TRUE, value |-> newStats]

\* a mutant of SurvivalBonus: the bonus is not capped
SurvivalBonusNoCap(t) == t + 2

\* Math.min(t + 2, 60)
SurvivalBonus(t) == Min(t + 2, 60)

\* a mutant of SurvivalPenalty: the penalty is not floored
SurvivalPenaltyNoFloor(t) == t - 3

\* Math.max(t - 3, 0)
SurvivalPenalty(t) == Max(t - 3, 0)

\* a mutant of ChordBonus: the bonus is not capped
ChordBonusNoCap(t) == t + 5

\* Math.min(t + 5, 120)
ChordBonus(t) == Min(t + 5, 120)

\* a mutant of ChordPenalty: the penalty is not floored
ChordPenaltyNoFloor(t) == t - 2

\* Math.max(t - 2, 0)
ChordPenalty(t) == Max(t - 2, 0)

\* a mutant of ChordComplete: one pitch short of the chord counts as complete
ChordCompleteEarly(newFoundNotes) ==
    Cardinality(newFoundNotes) = Len(currentChord.notes) - 1

\* newFoundNotes.size === currentChord.notes.length
ChordComplete(newFoundNotes) == Cardinality(newFoundNotes) = Len(currentChord.notes)

\* a mutant of UnlockReached: the threshold is compared with >
UnlockReachedLate(newStringScore) ==
    newStringScore > MASTERY_THRESHOLD /\ unlockedStrings < 6

\* a mutant of UnlockReached: the limit of 6 strings is not tested
UnlockReachedNoLimit(newStringScore) ==
    newStringScore >= MASTERY_THRESHOLD

\* newStringScore >= MASTERY_THRESHOLD && unlockedStrings < 6
UnlockReached(newStringScore) ==
    newStringScore >= MASTERY_THRESHOLD /\ unlockedStrings < 6

\* a click that returns before any state the model keeps is touched
ClickIgnored ==
    UNCHANGED <<sessionVars, storageVars, timeouts, chordBonuses>>

\* a mutant of ChordClick: a chord pitch counts again when it was already found
ChordClickNoFoundTest(name, noteId) ==
    /\ IF name \in Range(currentChord.notes)
       THEN LET newFoundNotes == foundChordNotes \cup {name}
            IN  /\ foundChordNotes' = newFoundNotes
                /\ foundNotes' = foundNotes \cup {noteId}
                /\ score' = score + 1
                /\ IF ChordComplete(newFoundNotes)
                   THEN /\ timeLeft' = ChordBonus(timeLeft)
                        /\ Schedule(ChordTimeout)
                        /\ chordBonuses' = chordBonuses + 1
                   ELSE UNCHANGED <<timeLeft, timeouts, chordBonuses>>
       ELSE /\ timeLeft' = ChordPenalty(timeLeft)
            /\ UNCHANGED <<foundChordNotes, foundNotes, score, timeouts,
                           chordBonuses>>
    /\ UNCHANGED <<mode, targetNote, gameActive, activeStrings, unlockedStrings,
                   currentStringScore, noteStats, fretRange, currentChord,
                   storedStats, storedUnlocked>>
    /\ HighScoreEffects

\* the chord branch
ChordClick(name, noteId) ==
    /\ IF name \in Range(currentChord.notes)
       THEN IF name \notin foundChordNotes
            THEN LET newFoundNotes == foundChordNotes \cup {name}
                 IN  /\ foundChordNotes' = newFoundNotes
                     /\ foundNotes' = foundNotes \cup {noteId}
                     /\ score' = score + 1
                     /\ IF ChordComplete(newFoundNotes)
                        THEN /\ timeLeft' = ChordBonus(timeLeft)
                             /\ Schedule(ChordTimeout)
                             /\ chordBonuses' = chordBonuses + 1
                        ELSE UNCHANGED <<timeLeft, timeouts, chordBonuses>>
            ELSE UNCHANGED <<foundChordNotes, foundNotes, score, timeLeft,
                             timeouts, chordBonuses>>
       ELSE /\ timeLeft' = ChordPenalty(timeLeft)
            /\ UNCHANGED <<foundChordNotes, foundNotes, score, timeouts,
                           chordBonuses>>
    /\ UNCHANGED <<mode, targetNote, gameActive, activeStrings, unlockedStrings,
                   currentStringScore, noteStats, fretRange, currentChord,
                   storedStats, storedUnlocked>>
    /\ HighScoreEffects

\* a mutant of VerticalCorrect: the next target is scheduled at 3 positions
VerticalCorrectLateAdvance(noteId) ==
    /\ IF noteId \notin foundNotes
       THEN LET newFound == foundNotes \cup {noteId}
            IN  /\ foundNotes' = newFound
                /\ score' = score + 1
                /\ IF Cardinality(newFound) >= 3
                   THEN Schedule(TargetTimeout(mode, NoteSet))
                   ELSE UNCHANGED timeouts
       ELSE UNCHANGED <<foundNotes, score, timeouts>>
    /\ UNCHANGED <<timeLeft, unlockedStrings, currentStringScore, activeStrings,
                   storedUnlocked>>

\* the vertical branch of a correct answer
VerticalCorrect(noteId) ==
    /\ IF noteId \notin foundNotes
       THEN LET newFound == foundNotes \cup {noteId}
            IN  /\ foundNotes' = newFound
                /\ score' = score + 1
                /\ IF Cardinality(newFound) >= 2
                   THEN Schedule(TargetTimeout(mode, NoteSet))
                   ELSE UNCHANGED timeouts
       ELSE UNCHANGED <<foundNotes, score, timeouts>>
    /\ UNCHANGED <<timeLeft, unlockedStrings, currentStringScore, activeStrings,
                   storedUnlocked>>

\* a mutant of StringMasterCorrect: the new unlocked count is not stored
StringMasterCorrectNoPersist ==
    LET newStringScore == currentStringScore + 1
    IN  /\ score' = score + 1
        /\ IF UnlockReached(newStringScore)
           THEN LET newUnlocked == unlockedStrings + 1
                IN  /\ unlockedStrings' = newUnlocked
                    /\ currentStringScore' = 0
                    /\ storedUnlocked' = storedUnlocked
                    /\ activeStrings' = FirstStrings(newUnlocked)
           ELSE /\ currentStringScore' = newStringScore
                /\ UNCHANGED <<unlockedStrings, storedUnlocked, activeStrings>>
        /\ Schedule(TargetTimeout(mode, NoteSet))
        /\ UNCHANGED <<timeLeft, foundNotes>>

\* the stringMaster branch of a correct answer
StringMasterCorrect ==
    LET newStringScore == currentStringScore + 1
    IN  /\ score' = score + 1
        /\ IF UnlockReached(newStringScore)
           THEN LET newUnlocked == unlockedStrings + 1
                IN  /\ unlockedStrings' = newUnlocked
                    /\ currentStringScore' = 0
                    /\ storedUnlocked' = toString(newUnlocked)
                    /\ activeStrings' = FirstStrings(newUnlocked)
           ELSE /\ currentStringScore' = newStringScore
                /\ UNCHANGED <<unlockedStrings, storedUnlocked, activeStrings>>
        /\ Schedule(TargetTimeout(mode, NoteSet))
        /\ UNCHANGED <<timeLeft, foundNotes>>

\* a mutant of PlainCorrect: Survival gets no time bonus
PlainCorrectNoBonus ==
    /\ score' = score + 1
    /\ timeLeft' = timeLeft
    /\ IF mode = "weakNotes"
       THEN LET weak == WeakNotes(noteStats)
            IN  IF weak # {}
                THEN Schedule(TargetTimeout(mode, weak))
                ELSE Schedule(TargetTimeout(mode, NoteSet))
       ELSE Schedule(TargetTimeout(mode, NoteSet))
    /\ UNCHANGED <<foundNotes, unlockedStrings, currentStringScore,
                   activeStrings, storedUnlocked>>

\* a correct answer in survival or weakNotes (and any other mode that gets here)
PlainCorrect ==
    /\ score' = score + 1
    /\ timeLeft' = IF mode = "survival" THEN SurvivalBonus(timeLeft) ELSE timeLeft
    /\ IF mode = "weakNotes"
       THEN LET weak == WeakNotes(noteStats)
            IN  IF weak # {}
                THEN Schedule(TargetTimeout(mode, weak))
                ELSE Schedule(TargetTimeout(mode, NoteSet))
       ELSE Schedule(TargetTimeout(mode, NoteSet))
    /\ UNCHANGED <<foundNotes, unlockedStrings, currentStringScore,
                   activeStrings, storedUnlocked>>

\* noteName === targetNote
CorrectClick(noteId) ==
    /\ updateNoteStats(targetNote, TRUE)
    /\ IF mode = "vertical" THEN VerticalCorrect(noteId)
       ELSE IF mode = "stringMaster" THEN StringMasterCorrect
       ELSE PlainCorrect
    /\ UNCHANGED <<mode, targetNote, gameActive, fretRange, currentChord,
                   foundChordNotes, chordBonuses>>
    /\ HighScoreEffects

\* a mutant of WrongClick: a wrong answer also schedules the next target
WrongClickAdvances ==
    /\ updateNoteStats(targetNote, FALSE)
    /\ timeLeft' = IF mode = "survival" THEN SurvivalPenalty(timeLeft) ELSE timeLeft
    /\ Schedule(TargetTimeout(mode, NoteSet))
    /\ UNCHANGED <<mode, targetNote, score, gameActive, foundNotes,
                   activeStrings, highScore, unlockedStrings, currentStringScore,
                   fretRange, currentChord, foundChordNotes, storedHigh,
                   storedUnlocked, chordBonuses>>

\* a mutant of WrongClick: a wrong answer resets the in-round unlock counter
WrongClickResetsProgress ==
    /\ updateNoteStats(targetNote, FALSE)
    /\ timeLeft' = IF mode = "survival" THEN SurvivalPenalty(timeLeft) ELSE timeLeft
    /\ currentStringScore' = 0
    /\ UNCHANGED <<mode, targetNote, score, gameActive, foundNotes,
                   activeStrings, highScore, unlockedStrings,
                   fretRange, currentChord, foundChordNotes, storedHigh,
                   storedUnlocked, timeouts, chordBonuses>>

\* noteName !== targetNote
WrongClick ==
    /\ updateNoteStats(targetNote, FALSE)
    /\ timeLeft' = IF mode = "survival" THEN SurvivalPenalty(timeLeft) ELSE timeLeft
    /\ UNCHANGED <<mode, targetNote, score, gameActive, foundNotes,
                   activeStrings, highScore, unlockedStrings, currentStringScore,
                   fretRange, currentChord, foundChordNotes, storedHigh,
                   storedUnlocked, timeouts, chordBonuses>>

\* a mutant of handleFretClick: a click in Explore adds to the score
handleFretClickExploreScores(s, f) ==
    LET name == getNoteName(s, f)
        range == FRET_RANGES[fretRange]
    IN  /\ IF f < range.min \/ f > range.max THEN ClickIgnored
           ELSE IF mode = "explore"
                THEN /\ score' = score + 1
                     /\ UNCHANGED <<mode, targetNote, timeLeft, gameActive,
                                    foundNotes, activeStrings, unlockedStrings,
                                    currentStringScore, noteStats, fretRange,
                                    currentChord, foundChordNotes, storedStats,
                                    storedUnlocked, timeouts, chordBonuses>>
                     /\ HighScoreEffects
           ELSE IF ~gameActive THEN ClickIgnored
           ELSE IF mode = "chord" /\ currentChord # NoChord
                THEN ChordClick(name, <<s, f>>)
           ELSE IF targetNote = "null" THEN ClickIgnored
           ELSE IF name = targetNote THEN CorrectClick(<<s, f>>)
           ELSE WrongClick
        /\ UNCHANGED resolverVars

\* a mutant of handleFretClick: clicks are handled when no round is active
handleFretClickNoActiveGuard(s, f) ==
    LET name == getNoteName(s, f)
        range == FRET_RANGES[fretRange]
    IN  /\ IF f < range.min \/ f > range.max THEN ClickIgnored
           ELSE IF mode = "explore" THEN ClickIgnored
           ELSE IF mode = "chord" /\ currentChord # NoChord
                THEN ChordClick(name, <<s, f>>)
           ELSE IF targetNote = "null" THEN ClickIgnored
           ELSE IF name = targetNote THEN CorrectClick(<<s, f>>)
           ELSE WrongClick
        /\ UNCHANGED resolverVars

\* a mutant of handleFretClick: the fret range is not tested
handleFretClickNoRangeCheck(s, f) ==
    LET name == getNoteName(s, f)
    IN  /\ IF mode = "explore" THEN ClickIgnored
           ELSE IF ~gameActive THEN ClickIgnored
           ELSE IF mode = "chord" /\ currentChord # NoChord
                THEN ChordClick(name, <<s, f>>)
           ELSE IF targetNote = "null" THEN ClickIgnored
           ELSE IF name = targetNote THEN CorrectClick(<<s, f>>)
           ELSE WrongClick
        /\ UNCHANGED resolverVars

handleFretClick(s, f) ==
    LET name == getNoteName(s, f)
        range == FRET_RANGES[fretRange]
    IN  /\ IF f < range.min \/ f > range.max THEN ClickIgnored
           ELSE IF mode = "explore" THEN ClickIgnored
           ELSE IF ~gameActive THEN ClickIgnored
           ELSE IF mode = "chord" /\ currentChord # NoChord
                THEN ChordClick(name, <<s, f>>)
           ELSE IF targetNote = "null" THEN ClickIgnored
           ELSE IF name = targetNote THEN CorrectClick(<<s, f>>)
           ELSE WrongClick
        /\ UNCHANGED resolverVars

(***************************************************************************)
(* Timers                                                                  *)
(***************************************************************************)
TimedModes == {"survival", "vertical", "chord"}

\* a mutant of IntervalRunning: the interval exists in every mode
IntervalRunningAnyMode == gameActive /\ timeLeft > 0

\* the interval exists while the round is active in a timed mode with time left
IntervalRunning == gameActive /\ mode \in TimedModes /\ timeLeft > 0

\* the interval callback
Tick ==
    /\ IntervalRunning
    /\ IF timeLeft <= 1
       THEN timeLeft' = 0 /\ gameActive' = FALSE
       ELSE timeLeft' = timeLeft - 1 /\ UNCHANGED gameActive
    /\ UNCHANGED <<mode, targetNote, score, foundNotes, activeStrings, highScore,
                   unlockedStrings, currentStringScore, noteStats, fretRange,
                   currentChord, foundChordNotes, storageVars, timeouts,
                   chordBonuses, resolverVars>>

\* a pending setTimeout(pickNewTarget) fires; nothing ever clears one
FirePickNewTarget(t, note) ==
    /\ BagIn(t, timeouts)
    /\ t.cb = "pickNewTarget"
    /\ timeouts' = timeouts (-) SetToBag({t})
    /\ PickNewTarget(t.mode, t.pool, note)
    /\ UNCHANGED <<mode, score, timeLeft, gameActive, activeStrings, highScore,
                   unlockedStrings, currentStringScore, noteStats, fretRange,
                   currentChord, foundChordNotes, storageVars, chordBonuses,
                   resolverVars>>

\* a pending setTimeout(pickNewChord) fires
FirePickNewChord(t, root, type) ==
    /\ BagIn(t, timeouts)
    /\ t.cb = "pickNewChord"
    /\ timeouts' = timeouts (-) SetToBag({t})
    /\ PickNewChord(root, type)
    /\ UNCHANGED <<mode, targetNote, score, timeLeft, gameActive, activeStrings,
                   highScore, unlockedStrings, currentStringScore, noteStats,
                   fretRange, storageVars, resolverVars>>

(***************************************************************************)
(* Initial states                                                          *)
(***************************************************************************)
\* the resolver before a call
ResolverIdle ==
    /\ stringIndex = 0
    /\ fret = 0
    /\ noteName = "none"
    /\ octaveName = "none"
    /\ playedNote = NoNote

\* App after its first render and mount effects, over the given localStorage
Mounted(high, stats, unlocked) ==
    /\ storedHigh = high
    /\ storedStats = stats
    /\ storedUnlocked = unlocked
    /\ mode = "explore"
    /\ targetNote = "null"
    /\ score = 0
    /\ timeLeft = 0
    /\ gameActive = FALSE
    /\ foundNotes = {}
    /\ activeStrings = NoActiveStrings
    /\ highScore = IF high["explore"] # NoItem THEN parseInt(high["explore"]) ELSE 0
    /\ unlockedStrings = IF unlocked # NoItem THEN parseInt(unlocked) ELSE 1
    /\ currentStringScore = 0
    /\ noteStats = IF stats.present THEN stats.value ELSE NoStats
    /\ fretRange = "full"
    /\ currentChord = NoChord
    /\ foundChordNotes = {}
    /\ timeouts = EmptyBag
    /\ chordBonuses = 0

NoHighScores == [m \in Modes |-> NoItem]

\* a first visit: nothing stored
FreshSession == Mounted(NoHighScores, NoStoredStats, NoItem)

(***************************************************************************)
(* Specification of the pitch resolver: one call at (stringIndex, fret),   *)
(* one call an octave above it and one call of the note player             *)
(***************************************************************************)
MaxFretArg == 24

InitPitch ==
    /\ stringIndex \in 0 .. (StringCount - 1)
    /\ fret \in 0 .. MaxFretArg
    /\ noteName = "none"
    /\ octaveName = "none"
    /\ playedNote = NoNote
    /\ FreshSession

Resolve ==
    /\ noteName = "none"
    /\ noteName' = getNoteName(stringIndex, fret)
    /\ UNCHANGED <<stringIndex, fret, octaveName, playedNote, sessionVars, storageVars,
                   timeouts, chordBonuses>>

ResolveOctaveAbove ==
    /\ octaveName = "none"
    /\ octaveName' = getNoteName(stringIndex, fret + 12)
    /\ UNCHANGED <<stringIndex, fret, noteName, playedNote, sessionVars, storageVars,
                   timeouts, chordBonuses>>

\* playNote(stringIndex, fret), as the fretboard calls it: frets 0..fretCount
Play ==
    /\ playedNote = NoNote
    /\ fret <= FretCount
    /\ playedNote' = playNote(stringIndex, fret)
    /\ UNCHANGED <<stringIndex, fret, noteName, octaveName, sessionVars,
                   storageVars, timeouts, chordBonuses>>

NextPitch == Resolve \/ ResolveOctaveAbove \/ Play

SpecPitch == InitPitch /\ [][NextPitch]_vars

\* C1: octave periodicity: the pitch resolved at (s, f) and the pitch resolved
\* at (s, f + 12) are the same, for every string 0..5 and fret f >= 0
C1_OctavePeriodicity ==
    (noteName # "none" /\ octaveName # "none") => noteName = octaveName

C1_Witness ==
    /\ stringIndex = 3 /\ fret = 7
    /\ noteName = "A" /\ octaveName = "A"

\* standard tuning as the specification states it, string 0 first
StandardTuning == <<"E", "B", "G", "D", "A", "E">>

\* C2: open strings follow standard tuning: fret 0 resolves to E, B, G, D, A, E
\* on strings 0..5
C2_OpenStrings ==
    (noteName # "none" /\ fret = 0) => noteName = StandardTuning[stringIndex + 1]

C2_Witness == stringIndex = 4 /\ fret = 0 /\ noteName = "A"

\* the cyclic order of the 12 pitch names, one semitone up
NextPitchName(n) ==
    CASE n = "C" -> "C#" [] n = "C#" -> "D" [] n = "D" -> "D#" [] n = "D#" -> "E"
      [] n = "E" -> "F" [] n = "F" -> "F#" [] n = "F#" -> "G" [] n = "G" -> "G#"
      [] n = "G#" -> "A" [] n = "A" -> "A#" [] n = "A#" -> "B" [] n = "B" -> "C"

RECURSIVE SemitonesAbove(_, _)
SemitonesAbove(n, k) == IF k = 0 THEN n ELSE NextPitchName(SemitonesAbove(n, k - 1))

\* C3: the resolver is total: for every string 0..5 and fret f >= 0 the result
\* is one of the 12 pitch names, never undefined, and it is the name f
\* semitones above the open string in the cyclic order; (0,3) is G, (5,5) is A
C3_TotalResolver ==
    noteName # "none" =>
        /\ noteName \in NoteSet
        /\ noteName = SemitonesAbove(StandardTuning[stringIndex + 1], fret)
        /\ (stringIndex = 0 /\ fret = 3 => noteName = "G")
        /\ (stringIndex = 5 /\ fret = 5 => noteName = "A")

C3_Witness == stringIndex = 5 /\ fret = 17 /\ noteName = "A"

(***************************************************************************)
(* Bounds shared by the session specifications                             *)
(***************************************************************************)
\* the fret clicks explored: every fret of the board on the given strings
Clicks(strings) == (strings \cap (0 .. (StringCount - 1))) \X (0 .. FretCount)

\* caps on the counters the program leaves unbounded
Within(maxScore, maxCorrect, maxWrong, maxPending) ==
    /\ score <= maxScore
    /\ \A n \in DOMAIN noteStats : /\ noteStats[n].correct <= maxCorrect
                                  /\ noteStats[n].wrong <= maxWrong
    /\ BagCardinality(timeouts) <= maxPending

\* every pending callback
Pending == BagToSet(timeouts)

(***************************************************************************)
(* Specification of a Progressive-Unlock session: the player uses the      *)
(* Explore, String Master and Weak Notes buttons and clicks frets; the     *)
(* unlocked count of earlier sessions is in storage                        *)
(***************************************************************************)
MaxScoreU == 10

MaxWrongU == 1

MaxPendingU == 1

\* the notes Math.random is let to draw in this session
DrawsU == {"C"}

\* the strings the player clicks in this session
ClickStringsU == {0}

\* the unlocked counts earlier sessions left in storage: none, 5 and 6
StoredUnlockedU == {NoItem, toString(5), toString(6)}

InitUnlock ==
    /\ ResolverIdle
    /\ \E u \in StoredUnlockedU : Mounted(NoHighScores, NoStoredStats, u)

WithinU == Within(MaxScoreU, MaxScoreU, MaxWrongU, MaxPendingU)

NextUnlock ==
    \/ StartExplore
    \/ \E n \in DrawsU : startStringMaster(n)
    \/ \E n \in DrawsU : startWeakNotes(n)
    \/ \E c \in Clicks(ClickStringsU) : handleFretClick(c[1], c[2]) /\ WithinU'
    \/ \E t \in Pending : \E n \in DrawsU : FirePickNewTarget(t, n)

SpecUnlock == InitUnlock /\ [][NextUnlock]_vars

\* a correct answer of a Progressive-Unlock round: the only step of the mode
\* that adds to the score
StringMasterAnswer == mode = "stringMaster" /\ score' = score + 1

\* C4: with fewer than 6 strings unlocked, the correct answer that brings the
\* in-round counter to 10 adds exactly 1 to the unlocked count and resets the
\* counter to 0; a correct answer that brings it to 1..9 leaves the unlocked
\* count alone
C4_UnlockStep ==
    [][(StringMasterAnswer /\ unlockedStrings < 6) =>
          IF currentStringScore + 1 = MASTERY_THRESHOLD
          THEN /\ unlockedStrings' = unlockedStrings + 1
               /\ currentStringScore' = 0
          ELSE /\ currentStringScore + 1 \in 1 .. 9
               /\ currentStringScore' = currentStringScore + 1
               /\ unlockedStrings' = unlockedStrings]_vars

\* the tenth correct answer of a round that started with one string
C4_Witness ==
    /\ mode = "stringMaster"
    /\ score = 10
    /\ currentStringScore = 0
    /\ unlockedStrings = 2
    /\ storedUnlocked = <<2>>

\* C5: the unlocked count is always within 1..6
C5_UnlockedRange == unlockedStrings \in 1 .. 6

\* the threshold passed with all 6 strings unlocked
C5_Witness ==
    /\ mode = "stringMaster"
    /\ unlockedStrings = 6
    /\ currentStringScore >= MASTERY_THRESHOLD

(***************************************************************************)
(* Specification of a Survival session: the player starts Survival rounds  *)
(* (a new one once the last is over), clicks frets, and the interval ticks *)
(***************************************************************************)
MaxScoreS == 16

MaxWrongS == 1

MaxPendingS == 1

\* the strings the player clicks in this session
ClickStringsS == {0}

\* the notes Math.random is let to draw in this session
DrawsS == {"C"}

InitSurvival == ResolverIdle /\ FreshSession

WithinS == Within(MaxScoreS, MaxScoreS, MaxWrongS, MaxPendingS)

NextSurvival ==
    \/ \E n \in DrawsS : ~gameActive /\ startSurvival(n)
    \/ \E c \in Clicks(ClickStringsS) : handleFretClick(c[1], c[2]) /\ WithinS'
    \/ Tick
    \/ \E t \in Pending : \E n \in DrawsS : FirePickNewTarget(t, n)

SpecSurvival == InitSurvival /\ [][NextSurvival]_vars

\* C6: in a timed mode a round with no time left is inactive
C6_ZeroEndsRound ==
    (mode \in TimedModes /\ timeLeft = 0) => ~gameActive

\* a step that records a wrong answer for the target
WrongAnswer ==
    /\ targetNote \in DOMAIN noteStats'
    /\ noteStats'[targetNote].wrong = StatsOf(noteStats, targetNote).wrong + 1

\* C7: in Survival the time remaining stays within 0..60; a correct answer adds
\* 2 and stops at 60, a wrong answer subtracts 3 and stops at 0
C7_SurvivalTimer ==
    [][/\ mode' = "survival" => timeLeft' \in 0 .. 60
       /\ (mode = "survival" /\ score' = score + 1) =>
             timeLeft' = (IF timeLeft + 2 > 60 THEN 60 ELSE timeLeft + 2)
       /\ (mode = "survival" /\ WrongAnswer) =>
             timeLeft' = (IF timeLeft - 3 < 0 THEN 0 ELSE timeLeft - 3)]_vars

\* sixteen correct answers in one round, the last ones held at the cap
C7_Witness == mode = "survival" /\ gameActive /\ timeLeft = 60 /\ score = 16

(***************************************************************************)
(* Specification of a Chord round: the player starts Chord from Explore,   *)
(* clicks frets, the interval ticks and the next-chord callbacks fire      *)
(***************************************************************************)
MaxScoreC == 21

MaxPendingC == 1

\* the strings the player clicks in this session: every pitch is on string 0
ClickStringsC == {0}

\* the chords Math.random is let to draw in this session
RootDrawsC == {"C", "G"}

TypeDrawsC == {"major", "minor"}

InitChord == ResolverIdle /\ FreshSession

WithinC == Within(MaxScoreC, 0, 0, MaxPendingC)

NextChord ==
    \/ \E r \in RootDrawsC : \E ty \in TypeDrawsC :
          mode = "explore" /\ startChord(r, ty)
    \/ \E c \in Clicks(ClickStringsC) : handleFretClick(c[1], c[2]) /\ WithinC'
    \/ Tick
    \/ \E t \in Pending : \E r \in RootDrawsC : \E ty \in TypeDrawsC :
          FirePickNewChord(t, r, ty)

SpecChord == InitChord /\ [][NextChord]_vars

\* a fret click that gets past the range check and the gameActive guard
LiveClick(f) ==
    /\ f >= FRET_RANGES[fretRange].min
    /\ f <= FRET_RANGES[fretRange].max
    /\ gameActive

\* the pitches the chord table defines for the current chord
ChordPitches == Range(CHORDS[currentChord.root][currentChord.type])

\* C8: in Chord mode the time remaining stays within 0..120; the click that
\* completes a chord adds 5 and stops at 120, a click on a pitch outside the
\* chord subtracts 2 and stops at 0, any other click leaves the time alone
C8_ChordTimer ==
    [][/\ mode' = "chord" => timeLeft' \in 0 .. 120
       /\ \A c \in Clicks(ClickStringsC) :
             (mode = "chord" /\ LiveClick(c[2]) /\ handleFretClick(c[1], c[2])) =>
                LET name == getNoteName(c[1], c[2])
                IN  IF name \notin ChordPitches
                    THEN timeLeft' = (IF timeLeft - 2 < 0 THEN 0 ELSE timeLeft - 2)
                    ELSE IF name \notin foundChordNotes
                            /\ foundChordNotes \cup {name} = ChordPitches
                    THEN timeLeft' = (IF timeLeft + 5 > 120 THEN 120 ELSE timeLeft + 5)
                    ELSE timeLeft' = timeLeft]_vars

\* seven chords completed in one round, the last bonus held at the cap
C8_Witness == mode = "chord" /\ gameActive /\ timeLeft = 120 /\ score = 21

(***************************************************************************)
(* Specification of repeated Chord rounds: the player switches between     *)
(* Explore and Chord at any time and clicks frets; the first seconds of    *)
(* each round are explored, and the next-chord callbacks, which nothing    *)
(* cancels, fire in whatever mode and round is current                     *)
(***************************************************************************)
MaxScoreR == 4

MaxPendingR == 2

\* seconds of a round explored: ticks and penalties since its start
MaxElapsedR == 2

\* the strings the player clicks in this session
ClickStringsR == {0}

\* the chords Math.random is let to draw in this session
RootDrawsR == {"C", "G"}

TypeDrawsR == {"major", "minor"}

InitRounds == ResolverIdle /\ FreshSession


\* timeLeft at the start of a round of a timed mode
RoundTime(m) ==
    CASE m = "survival" -> 30 [] m = "vertical" -> 60 [] m = "chord" -> 90
      [] OTHER -> 0

WithinR ==
    /\ Within(MaxScoreR, 0, 0, MaxPendingR)
    /\ timeLeft >= RoundTime(mode) - MaxElapsedR

NextRounds ==
    \/ StartExplore
    \/ \E r \in RootDrawsR : \E ty \in TypeDrawsR : startChord(r, ty)
    \/ \E c \in Clicks(ClickStringsR) : handleFretClick(c[1], c[2]) /\ WithinR'
    \/ Tick /\ WithinR'
    \/ \E t \in Pending : \E r \in RootDrawsR : \E ty \in TypeDrawsR :
          FirePickNewChord(t, r, ty)

SpecRounds == InitRounds /\ [][NextRounds]_vars

\* a step that schedules one more next-chord callback
NextChordScheduled ==
    CopiesIn(ChordTimeout, timeouts') = CopiesIn(ChordTimeout, timeouts) + 1

\* C9: in Chord mode a click schedules the next chord exactly when it brings
\* the size of the found-pitch set to the number of pitches of the chord
C9_ChordCompletion ==
    [][\A c \in Clicks(ClickStringsR) :
          (mode = "chord" /\ handleFretClick(c[1], c[2])) =>
             (NextChordScheduled <=>
                 /\ foundChordNotes' # foundChordNotes
                 /\ Cardinality(foundChordNotes') =
                       Len(CHORDS[currentChord.root][currentChord.type]))]_vars

\* a completed chord waiting for its successor
C9_Witness ==
    /\ mode = "chord"
    /\ gameActive
    /\ Cardinality(foundChordNotes) = 3
    /\ CopiesIn(ChordTimeout, timeouts) = 1

\* C10: since the current chord was selected the completion bonus has been
\* applied once if all its pitches are found and not at all otherwise
C10_OneBonusPerChord ==
    currentChord # NoChord =>
        chordBonuses = (IF foundChordNotes = ChordPitches THEN 1 ELSE 0)

\* a second chord completed while the callback of an earlier round is pending
C10_Witness ==
    /\ mode = "chord"
    /\ chordBonuses = 1
    /\ foundChordNotes = ChordPitches
    /\ score = 3
    /\ CopiesIn(ChordTimeout, timeouts) = 2

(***************************************************************************)
(* Specification of a Remediation session: statistics of earlier sessions  *)
(* are in storage; the player uses the Explore and Weak Notes buttons and  *)
(* clicks frets, and the next-target callbacks fire                        *)
(***************************************************************************)
MaxScoreM == 2

MaxCorrectM == 7

MaxWrongM == 3

MaxPendingM == 1

\* the notes Math.random is let to draw in this session
DrawsM == {"C", "D"}

\* the strings the player clicks in this session
ClickStringsM == {0}

\* a stored record for D that makes it a weak note: 3 wrong out of 5
WeakRecordM == [correct |-> 2, wrong |-> 3]

\* the statistics earlier sessions left in storage: nothing, a record for C,
\* or a record for C and the weak record for D
StoredStatsM ==
    {NoStoredStats}
    \cup {[present |-> TRUE,
           value |-> [n \in {"C"} |-> [correct |-> c, wrong |-> w]]] :
             c \in 0 .. MaxCorrectM, w \in 1 .. MaxWrongM}
    \cup {[present |-> TRUE,
           value |-> [n \in {"C", "D"} |->
                        IF n = "C" THEN [correct |-> c, wrong |-> w]
                        ELSE WeakRecordM]] :
             c \in 1 .. MaxCorrectM, w \in 0 .. MaxWrongM}

InitRemediation ==
    /\ ResolverIdle
    /\ \E st \in StoredStatsM : Mounted(NoHighScores, st, NoItem)

WithinM == Within(MaxScoreM, MaxCorrectM, MaxWrongM, MaxPendingM)

NextRemediation ==
    \/ StartExplore
    \/ \E n \in DrawsM : startWeakNotes(n)
    \/ \E c \in Clicks(ClickStringsM) : handleFretClick(c[1], c[2]) /\ WithinM'
    \/ \E t \in Pending : \E n \in DrawsM : FirePickNewTarget(t, n)

SpecRemediation == InitRemediation /\ [][NextRemediation]_vars

\* a pitch qualifies as weak: at least 5 recorded attempts and more than 30%
\* of them wrong
QualifiesAsWeak(n) ==
    LET correct == IF n \in DOMAIN noteStats THEN noteStats[n].correct ELSE 0
        wrong == IF n \in DOMAIN noteStats THEN noteStats[n].wrong ELSE 0
        attempts == correct + wrong
    IN  attempts >= 5 /\ 10 * wrong > 3 * attempts

\* pressing Weak Notes can start a round whose first target is n
CanStartOn(n) == ENABLED (startWeakNotes(n) /\ mode' = "weakNotes")

\* C11: when Remediation is started a pitch is in the target pool if and only
\* if it has at least 5 recorded attempts and more than 30% of them are wrong
C11_PoolMembership == \A n \in NoteSet : CanStartOn(n) <=> QualifiesAsWeak(n)

\* a round started while C stands at exactly 30% (3 wrong of 10): D is drawn
C11_Witness ==
    /\ mode = "weakNotes"
    /\ gameActive
    /\ score = 0
    /\ timeouts = EmptyBag
    /\ noteStats["C"] = [correct |-> 7, wrong |-> 3]
    /\ targetNote = "D"

\* no pitch qualifies as weak
NoPitchQualifies == \A n \in NoteSet : ~QualifiesAsWeak(n)

\* C12: when no pitch qualifies as weak, pressing Weak Notes is refused: the
\* mode does not become weakNotes, no round is active, and score, target and
\* per-pitch counters are left as they were
C12_Refusal ==
    [][(NoPitchQualifies /\ \E n \in NoteSet : startWeakNotes(n)) =>
          /\ mode' # "weakNotes"
          /\ ~gameActive'
          /\ score' = score
          /\ targetNote' = targetNote
          /\ noteStats' = noteStats]_vars

\* a refusal after a round in which C stopped being weak: the score of that
\* round and its target are still there
C12_Witness ==
    /\ mode = "explore"
    /\ ~gameActive
    /\ NoPitchQualifies
    /\ score = 1
    /\ targetNote = "C"
    /\ noteStats["C"] = [correct |-> 5, wrong |-> 2]

\* a step that selects a target for a Remediation round: the round starts or
\* a next-target callback fires
RemediationSelects ==
    /\ mode' = "weakNotes"
    /\ \/ mode # "weakNotes"
       \/ BagCardinality(timeouts') < BagCardinality(timeouts)

\* C13: every target selected in Remediation mode is a pitch that qualifies as
\* weak
C13_TargetsFromPool ==
    [][RemediationSelects => QualifiesAsWeak(targetNote)']_vars

\* C14: a callback scheduled in one mode has no effect once the mode has been
\* switched: when a pending callback of another mode goes off, target, chord
\* and found sets stay as they are
C14_TimersCancelled ==
    [][\A t \in Pending :
          (t.mode # mode /\ timeouts' = timeouts (-) SetToBag({t})) =>
             UNCHANGED <<targetNote, currentChord, foundNotes, foundChordNotes>>]_vars

\* C15: after a mode switch the score is 0, the found sets are empty and the
\* timer of a timed mode holds the mode's starting value
C15_SwitchResets ==
    [][mode' # mode =>
          /\ score' = 0
          /\ foundNotes' = {}
          /\ foundChordNotes' = {}
          /\ mode' \in TimedModes => timeLeft' = RoundTime(mode')]_vars

\* the modes asking for one target or one chord with scoring
ScoredModes == {"survival", "stringMaster", "weakNotes", "chord"}

\* exactly one counter of pitch n went up by 1, no other counter changed
OneCounterAdded(n) ==
    LET before == StatsOf(noteStats, n)
        after == StatsOf(noteStats', n)
    IN  /\ \/ after = [correct |-> before.correct + 1, wrong |-> before.wrong]
           \/ after = [correct |-> before.correct, wrong |-> before.wrong + 1]
        /\ \A m \in NoteSet \ {n} : StatsOf(noteStats', m) = StatsOf(noteStats, m)

\* C16: in Survival, Progressive-Unlock, Remediation and Chord every in-range
\* click of an active round adds 1 to exactly one counter of a pitch asked
\* for: the target, or a pitch of the chord
C16_CountersUpdated ==
    [][\A c \in Clicks(ClickStringsR) :
          (mode \in ScoredModes /\ LiveClick(c[2]) /\ handleFretClick(c[1], c[2])) =>
             \E n \in NoteSet :
                /\ OneCounterAdded(n)
                /\ IF mode = "chord" THEN n \in Range(currentChord.notes)
                   ELSE n = targetNote]_vars

\* C17: a fret click in Explore leaves score, time remaining, per-pitch
\* counters, found sets, unlocked count and in-round unlock counter unchanged
C17_ExploreNoScoring ==
    [][\A c \in Clicks(ClickStringsR) :
          (mode = "explore" /\ handleFretClick(c[1], c[2])) =>
             UNCHANGED <<score, timeLeft, noteStats, foundNotes, foundChordNotes,
                         unlockedStrings, currentStringScore>>]_vars

\* Explore entered from a Chord round: its score, time and found sets are kept
C17_Witness ==
    /\ mode = "explore"
    /\ score = 2
    /\ timeLeft = 90
    /\ Cardinality(foundNotes) = 2
    /\ Cardinality(foundChordNotes) = 2

MaxScoreT == 1

MaxWrongT == 1

MaxPendingT == 1

\* the notes Math.random is let to draw in this session
DrawsT == {"C"}

\* the strings the player clicks in this session
ClickStringsT == {0}

InitCountdown == ResolverIdle /\ FreshSession

WithinT == Within(MaxScoreT, MaxScoreT, MaxWrongT, MaxPendingT)

NextCountdown ==
    \/ StartExplore
    \/ \E n \in DrawsT : startSurvival(n)
    \/ \E n \in DrawsT : startVertical(n)
    \/ \E n \in DrawsT : startStringMaster(n)
    \/ \E c \in Clicks(ClickStringsT) : handleFretClick(c[1], c[2]) /\ WithinT'
    \/ Tick
    \/ \E t \in Pending : \E n \in DrawsT : FirePickNewTarget(t, n)

\* setInterval: while the interval exists its callback is eventually run
SpecCountdown == InitCountdown /\ [][NextCountdown]_vars /\ WF_vars(Tick)

\* from some point on the player does nothing: every step is a tick
OnlyTicks == <>[][Tick]_vars

\* C19: from the player's last click on, an active round of a timed mode
\* eventually is inactive with no time left
C19_RoundEnds ==
    OnlyTicks =>
        <>[]((mode \in TimedModes /\ gameActive) => <>(~gameActive /\ timeLeft = 0))

\* C20: a tick is taken only in an active round of Survival, Find-All or Chord
\* with time left; it lowers the time by exactly 1, and the tick at 1 sets the
\* time to 0 and ends the round; mode and score are left as they are
C20_CountdownStep ==
    [][Tick =>
          /\ mode \in {"survival", "vertical", "chord"}
          /\ mode \notin {"explore", "stringMaster", "weakNotes"}
          /\ gameActive
          /\ timeLeft > 0
          /\ timeLeft' = timeLeft - 1
          /\ gameActive' = (timeLeft # 1)
          /\ mode' = mode
          /\ score' = score]_vars

\* a Progressive-Unlock round entered from Survival with 29 seconds left on
\* the clock: the round is active and no interval exists
C20_Witness ==
    /\ mode = "stringMaster"
    /\ gameActive
    /\ timeLeft = 29
    /\ ~ENABLED Tick

(***************************************************************************)
(* Specification of single-target rounds: the player starts Survival,      *)
(* Progressive-Unlock and Remediation rounds whenever no next-target       *)
(* callback is pending, and clicks frets at any time, also during the      *)
(* delay before the next target; the interval is left out, so the clock    *)
(* moves only by bonuses and penalties                                     *)
(***************************************************************************)
MaxScoreG == 2

MaxCorrectG == 4

MaxWrongG == 4

MaxPendingG == 2

\* the notes Math.random is let to draw in this session
DrawsG == {"C"}

\* the strings the player clicks in this session
ClickStringsG == {0}

\* the statistics earlier sessions left in storage: C as a weak note (3 wrong
\* out of 5), so that a Remediation round can start
StoredStatsG ==
    {[present |-> TRUE, value |-> [n \in {"C"} |-> [correct |-> 2, wrong |-> 3]]]}

InitSingle ==
    /\ ResolverIdle
    /\ \E st \in StoredStatsG : Mounted(NoHighScores, st, NoItem)

WithinG == Within(MaxScoreG, MaxCorrectG, MaxWrongG, MaxPendingG)

NextSingle ==
    \/ \E n \in DrawsG : timeouts = EmptyBag /\ startSurvival(n)
    \/ \E n \in DrawsG : timeouts = EmptyBag /\ startStringMaster(n)
    \/ \E n \in DrawsG : timeouts = EmptyBag /\ startWeakNotes(n)
    \/ \E c \in Clicks(ClickStringsG) : handleFretClick(c[1], c[2]) /\ WithinG'
    \/ \E t \in Pending : \E n \in DrawsG : FirePickNewTarget(t, n)

SpecSingle == InitSingle /\ [][NextSingle]_vars

\* the modes that ask for one target at a time
SingleTargetModes == {"survival", "stringMaster", "weakNotes"}

\* an in-range click of an active round of a single-target mode
TargetClick(s, f) ==
    /\ mode \in SingleTargetModes
    /\ LiveClick(f)
    /\ targetNote # "null"
    /\ handleFretClick(s, f)

\* C21: in a single-target mode a click on a pitch other than the target
\* leaves target, score and unlock counters unchanged and schedules nothing
C21_WrongDoesNotAdvance ==
    [][\A c \in Clicks(ClickStringsG) :
          (TargetClick(c[1], c[2]) /\ getNoteName(c[1], c[2]) # targetNote) =>
             UNCHANGED <<targetNote, score, currentStringScore, unlockedStrings,
                         timeouts>>]_vars

\* a wrong answer recorded in a Progressive-Unlock round after one point
C21_Witness ==
    /\ mode = "stringMaster"
    /\ gameActive
    /\ score = 1
    /\ currentStringScore = 1
    /\ "C" \in DOMAIN noteStats
    /\ noteStats["C"] = [correct |-> 3, wrong |-> 4]

\* C22: in a single-target mode a click on the target pitch adds exactly 1 to
\* the score and schedules exactly one next-target selection; in Survival the
\* time goes up by 2 (held at 60), in the untimed modes it is unchanged
C22_CorrectScoresOne ==
    [][\A c \in Clicks(ClickStringsG) :
          (TargetClick(c[1], c[2]) /\ getNoteName(c[1], c[2]) = targetNote) =>
             /\ score' = score + 1
             /\ \E t \in BagToSet(timeouts') :
                   /\ t.cb = "pickNewTarget"
                   /\ timeouts' = timeouts (+) SetToBag({t})
             /\ timeLeft' = (IF mode = "survival"
                             THEN (IF timeLeft + 2 > 60 THEN 60 ELSE timeLeft + 2)
                             ELSE timeLeft)]_vars

\* a first correct answer of a Survival round
C22_Witness ==
    /\ mode = "survival"
    /\ gameActive
    /\ score = 1
    /\ timeLeft = 32
    /\ BagCardinality(timeouts) = 1

\* C23: in a single-target mode, while a next-target selection is pending (a
\* point was scored on the current target), neither the score nor the
\* in-round unlock counter goes up
C23_OnePointPerTarget ==
    [][(mode \in SingleTargetModes /\ mode' = mode /\ timeouts # EmptyBag) =>
          /\ score' <= score
          /\ currentStringScore' <= currentStringScore]_vars

(***************************************************************************)
(* Specification of Find-All rounds: the player starts Survival and        *)
(* Find-All rounds at any time, picks a fret range and clicks frets; the   *)
(* next-target callbacks fire in whatever mode is current; the interval is *)
(* left out                                                                *)
(***************************************************************************)
MaxScoreV == 2

MaxCorrectV == 2

MaxWrongV == 0

MaxPendingV == 1

\* the notes Math.random is let to draw in this session
DrawsV == {"C", "E"}

\* the strings the player clicks in this session: E is at frets 0 and 12
ClickStringsV == {0}

InitFindAll == ResolverIdle /\ FreshSession

WithinV == Within(MaxScoreV, MaxCorrectV, MaxWrongV, MaxPendingV)

NextFindAll ==
    \/ \E n \in DrawsV : startSurvival(n)
    \/ \E n \in DrawsV : startVertical(n)
    \/ \E r \in DOMAIN FRET_RANGES : setFretRange(r)
    \/ \E c \in Clicks(ClickStringsV) : handleFretClick(c[1], c[2]) /\ WithinV'
    \/ \E t \in Pending : \E n \in DrawsV : FirePickNewTarget(t, n)

SpecFindAll == InitFindAll /\ [][NextFindAll]_vars

\* C24: in Find-All a correct position not yet found is added to the found set
\* and scores 1; one already found changes neither; the click that brings
\* the found count to 2 schedules the next target, and when that selection
\* runs the found set is emptied
C24_FindAllScoring ==
    [][/\ \A c \in Clicks(ClickStringsV) :
             (mode = "vertical" /\ LiveClick(c[2]) /\ targetNote # "null"
                /\ getNoteName(c[1], c[2]) = targetNote
                /\ handleFretClick(c[1], c[2])) =>
                IF c \in foundNotes
                THEN UNCHANGED <<foundNotes, score>>
                ELSE /\ foundNotes' = foundNotes \cup {c}
                     /\ score' = score + 1
                     /\ Cardinality(foundNotes') = 2 =>
                           \E t \in BagToSet(timeouts') :
                              /\ t.cb = "pickNewTarget"
                              /\ timeouts' = timeouts (+) SetToBag({t})
       /\ \A t \in Pending :
             (t.mode = "vertical" /\ timeouts' = timeouts (-) SetToBag({t})) =>
                foundNotes' = {}]_vars

\* both E positions of string 0 found, the next target not yet selected
C24_Witness ==
    /\ mode = "vertical"
    /\ gameActive
    /\ targetNote = "E"
    /\ foundNotes = {<<0, 0>>, <<0, 12>>}
    /\ score = 2
    /\ BagCardinality(timeouts) = 1

\* C25: in Find-All every position of the found set resolves to the target
C25_FoundMatchesTarget ==
    mode = "vertical" =>
        \A p \in foundNotes : getNoteName(p[1], p[2]) = targetNote

\* the positions of the whole board, inside the selected fret range, that
\* resolve to pitch n
PositionsOf(n) ==
    {c \in Clicks(0 .. (StringCount - 1)) :
        /\ c[2] >= FRET_RANGES[fretRange].min
        /\ c[2] <= FRET_RANGES[fretRange].max
        /\ getNoteName(c[1], c[2]) = n}

\* C26: whatever fret range is selected, an active Find-All round has at least
\* 2 in-range positions of its target, so it can reach the threshold of 2
C26_CanAdvance ==
    (mode = "vertical" /\ gameActive) => Cardinality(PositionsOf(targetNote)) >= 2

\* C27: in an active Chord round a click on a chord pitch not yet found adds
\* it to the found pitches and scores 1; on a chord pitch already found it
\* changes neither score nor time; on a pitch outside the chord it subtracts 2
\* from the time, stopping at 0, and changes neither score nor found sets; the
\* found pitches are always pitches of the current chord
C27_ChordClickEffects ==
    [][/\ currentChord' # NoChord => foundChordNotes' \subseteq ChordPitches'
       /\ \A c \in Clicks(ClickStringsC) :
             (mode = "chord" /\ LiveClick(c[2]) /\ currentChord # NoChord
                /\ handleFretClick(c[1], c[2])) =>
                LET name == getNoteName(c[1], c[2])
                IN  IF name \notin ChordPitches
                    THEN /\ timeLeft' = (IF timeLeft - 2 < 0 THEN 0 ELSE timeLeft - 2)
                         /\ UNCHANGED <<score, foundChordNotes, foundNotes>>
                    ELSE IF name \in foundChordNotes
                    THEN UNCHANGED <<score, timeLeft, foundChordNotes>>
                    ELSE /\ foundChordNotes' = foundChordNotes \cup {name}
                         /\ score' = score + 1]_vars

\* one chord pitch found, and a wrong pitch clicked with 1 second left: the
\* penalty stopped at 0
C27_Witness ==
    /\ mode = "chord"
    /\ gameActive
    /\ timeLeft = 0
    /\ score = 1
    /\ Cardinality(foundChordNotes) = 1

\* C28: a step that changes the unlocked count writes the new count to
\* storage; a stored count always reads back as the count in memory; a step
\* that enters a mode leaves the count as it is
C28_UnlockedPersisted ==
    /\ [](storedUnlocked # NoItem => parseInt(storedUnlocked) = unlockedStrings)
    /\ [][/\ unlockedStrings' # unlockedStrings =>
                storedUnlocked' = toString(unlockedStrings')
          /\ mode' # mode => unlockedStrings' = unlockedStrings]_vars

\* the sixth string unlocked in a round that started with 5 in storage, then
\* Explore entered
C28_Witness ==
    /\ mode = "explore"
    /\ score = 10
    /\ unlockedStrings = 6
    /\ storedUnlocked = <<6>>

\* C29: the high score stored under a mode's key never decreases, and it is
\* written only by a step of a round of that mode that raised the score, with
\* that score; so nothing is ever written under the key of another mode
C29_HighScorePerMode ==
    [][\A m \in Modes :
          /\ parseInt(storedHigh'[m]) >= parseInt(storedHigh[m])
          /\ storedHigh'[m] # storedHigh[m] =>
                /\ mode = m
                /\ mode' = m
                /\ score' > score
                /\ storedHigh'[m] = toString(score')]_vars

\* C30: a wrong answer of an active Progressive-Unlock round leaves the
\* in-round counter, the unlocked count and the stored count as they are
C30_WrongKeepsProgress ==
    [][\A c \in Clicks(ClickStringsU) :
          (mode = "stringMaster" /\ LiveClick(c[2]) /\ targetNote # "null"
             /\ getNoteName(c[1], c[2]) # targetNote
             /\ handleFretClick(c[1], c[2])) =>
             UNCHANGED <<currentStringScore, unlockedStrings, storedUnlocked>>]_vars

\* a round with 5 strings unlocked, 3 correct answers and then a wrong one
C30_Witness ==
    /\ mode = "stringMaster"
    /\ gameActive
    /\ unlockedStrings = 5
    /\ currentStringScore = 3
    /\ "C" \in DOMAIN noteStats
    /\ noteStats["C"] = [correct |-> 3, wrong |-> 1]

(***************************************************************************)
(* Specification of Progressive-Unlock rounds on two strings: the player   *)
(* starts String Master rounds and clicks frets of strings 0 and 1; the    *)
(* unlocked count of earlier sessions is in storage                        *)
(***************************************************************************)
MaxScoreA == 10

MaxWrongA == 1

MaxPendingA == 1

\* the notes Math.random is let to draw in this session
DrawsA == {"C"}

\* the strings the player clicks in this session: C is at fret 8 of string 0
\* and at fret 1 of string 1
ClickStringsA == {0, 1}

\* the unlocked counts earlier sessions left in storage: none and 2
StoredUnlockedA == {NoItem, toString(2)}

InitStrings ==
    /\ ResolverIdle
    /\ \E u \in StoredUnlockedA : Mounted(NoHighScores, NoStoredStats, u)

WithinA == Within(MaxScoreA, MaxScoreA, MaxWrongA, MaxPendingA)

NextStrings ==
    \/ \E n \in DrawsA : startStringMaster(n)
    \/ \E c \in Clicks(ClickStringsA) : handleFretClick(c[1], c[2]) /\ WithinA'
    \/ \E t \in Pending : \E n \in DrawsA : FirePickNewTarget(t, n)

SpecStrings == InitStrings /\ [][NextStrings]_vars

\* C31: in Progressive-Unlock the active strings are exactly 0 .. unlocked-1,
\* and a click on a string outside them raises neither the score nor the
\* in-round unlock counter
C31_OnlyUnlockedStrings ==
    /\ [](mode = "stringMaster" => activeStrings = FirstStrings(unlockedStrings))
    /\ [][\A c \in Clicks(ClickStringsA) :
             (mode = "stringMaster" /\ c[1] \notin activeStrings.strings
                /\ handleFretClick(c[1], c[2])) =>
                /\ score' <= score
                /\ currentStringScore' <= currentStringScore]_vars

(***************************************************************************)
(* Specification of the whole board: the player uses every mode button and *)
(* the fret range selector at any time and clicks frets; storage holds a   *)
(* weak record of C, so that Weak Notes starts; the next-target callbacks  *)
(* fire in whatever mode is current; no chord is completed, and the        *)
(* interval is left out                                                    *)
(***************************************************************************)
MaxScoreB == 1

MaxCorrectB == 3

MaxWrongB == 3

MaxPendingB == 1

\* the notes and chords Math.random is let to draw in this session
DrawsB == {"C"}

RootDrawsB == {"C"}

TypeDrawsB == {"major"}

\* the positions the player clicks in this session: G and C on string 0; both
\* are pitches of C major, and each is outside some fret range
ClicksB == {<<0, 3>>, <<0, 8>>}

\* the statistics earlier sessions left in storage: C answered 2 times right
\* and 3 times wrong
StoredStatsB ==
    {[present |-> TRUE, value |-> [n \in {"C"} |-> [correct |-> 2, wrong |-> 3]]]}

InitBoard ==
    /\ ResolverIdle
    /\ \E st \in StoredStatsB : Mounted(NoHighScores, st, NoItem)

WithinB == Within(MaxScoreB, MaxCorrectB, MaxWrongB, MaxPendingB)

NextBoard ==
    \/ StartExplore
    \/ \E n \in DrawsB : startSurvival(n)
    \/ \E n \in DrawsB : startVertical(n)
    \/ \E n \in DrawsB : startStringMaster(n)
    \/ \E n \in DrawsB : startWeakNotes(n)
    \/ \E r \in RootDrawsB : \E ty \in TypeDrawsB : startChord(r, ty)
    \/ \E r \in DOMAIN FRET_RANGES : setFretRange(r)
    \/ \E c \in ClicksB : handleFretClick(c[1], c[2]) /\ WithinB'
    \/ \E t \in Pending : \E n \in DrawsB : FirePickNewTarget(t, n)

SpecBoard == InitBoard /\ [][NextBoard]_vars

\* the fret is outside the selected fret range
OutOfRange(f) ==
    f < FRET_RANGES[fretRange].min \/ f > FRET_RANGES[fretRange].max

\* C32: in every mode a click on a fret outside the selected fret range leaves
\* score, time remaining, per-pitch counters, found sets, target, chord and
\* unlock progress unchanged
C32_RangeGating ==
    [][\A c \in ClicksB :
          (OutOfRange(c[2]) /\ handleFretClick(c[1], c[2])) =>
             UNCHANGED <<score, timeLeft, noteStats, storedStats, foundNotes,
                         foundChordNotes, targetNote, currentChord,
                         unlockedStrings, storedUnlocked, currentStringScore,
                         mode, gameActive, timeouts>>]_vars

\* an active Survival round with one point scored whose target, C, is at
\* fret 8 of the clicked string while the range 0-4 is selected
C32_Witness ==
    /\ mode = "survival"
    /\ gameActive
    /\ fretRange = "low"
    /\ targetNote = "C"
    /\ score = 1
    /\ OutOfRange(8)
    /\ getNoteName(0, 8) = targetNote

(***************************************************************************)
(* Specification of chord selection: the player starts Chord rounds and    *)
(* clicks frets of string 0, Math.random draws every root and type, the    *)
(* next-chord callbacks fire; the interval is left out                     *)
(***************************************************************************)
MaxScoreH == 3

MaxPendingH == 1

\* the strings the player clicks in this session: every pitch is on string 0
ClickStringsH == {0}

InitChords == ResolverIdle /\ FreshSession

WithinH == Within(MaxScoreH, 0, 0, MaxPendingH)

NextChords ==
    \/ \E r \in Range(CHORD_ROOTS) : \E ty \in Range(CHORD_TYPES) :
          timeouts = EmptyBag /\ startChord(r, ty)
    \/ \E c \in Clicks(ClickStringsH) : handleFretClick(c[1], c[2]) /\ WithinH'
    \/ \E t \in Pending : \E r \in Range(CHORD_ROOTS) : \E ty \in Range(CHORD_TYPES) :
          FirePickNewChord(t, r, ty)

SpecChords == InitChords /\ [][NextChords]_vars

\* the place of a pitch name in the 12-pitch cycle, C at 0
SemitoneOf(n) == CHOOSE i \in 0 .. 11 : NOTES[i + 1] = n

\* notes is the triad on root: 3 distinct pitches of the 12, the root first,
\* then the third (4 semitones up for major, 3 for minor) and the fifth
Triad(root, type, notes) ==
    /\ Len(notes) = 3
    /\ Cardinality(Range(notes)) = 3
    /\ Range(notes) \subseteq NoteSet
    /\ notes[1] = root
    /\ SemitoneOf(notes[2]) =
          (SemitoneOf(root) + (IF type = "major" THEN 4 ELSE 3)) % 12
    /\ SemitoneOf(notes[3]) = (SemitoneOf(root) + 7) % 12

\* C33: every chord of the table, and the chord selected at any time, has 3
\* distinct pitches of the 12-pitch set, the root first, at root, root+4,
\* root+7 semitones for major and root, root+3, root+7 for minor
C33_ChordTable ==
    /\ \A r \in Range(CHORD_ROOTS) : \A ty \in Range(CHORD_TYPES) :
          Triad(r, ty, CHORDS[r][ty])
    /\ currentChord # NoChord =>
          Triad(currentChord.root, currentChord.type, currentChord.notes)

\* B major selected by the callback that follows a completed chord
C33_Witness ==
    /\ mode = "chord"
    /\ score = 3
    /\ timeouts = EmptyBag
    /\ currentChord = [root |-> "B", type |-> "major", notes |-> <<"B", "D#", "F#">>]

\* C34: for every string 0..5 and fret 0..12 the pitch class of the note
\* played by playNote(s, f) is the pitch getNoteName(s, f) resolves
C34_AudioAgrees ==
    (noteName # "none" /\ playedNote # NoNote
        /\ stringIndex \in 0 .. 5 /\ fret \in 0 .. 12) =>
        playedNote.name = noteName

\* the D string at fret 10: C4 is played and C is resolved
C34_Witness ==
    /\ stringIndex = 3
    /\ fret = 10
    /\ noteName = "C"
    /\ playedNote = [name |-> "C", octave |-> 4]

====
